---- MODULE Spec2Model ----
(***************************************************************************)
(* The Rltk host of src/src/rltk.rs: the font, shader and console          *)
(* registries, the pass-through Console implementation and main_loop,      *)
(* one action per statement group of the loop body.                        *)
(* Indices are 0-based as in the source; SeqAt(s, i) is s[i].              *)
(***************************************************************************)
EXTENDS Integers, Sequences, FiniteSets

\* ---------------------------------------------------------------- bounds
MaxFonts == 2
MaxConsoles == 2
MaxIters == 2
MaxEvents == 2
MaxTimeIters == 4
MaxEventIters == 3
MaxCloseIters == 3

\* Duration::as_secs / as_millis: whole seconds hold this many milliseconds.
MsPerSec == 1000

\* Input samples: cells (x, y), colour pairs (fg, bg), texts, framebuffer
\* dimensions, and the indices the application passes.
Cells == {<<0, 1>>, <<1, 0>>}
RGBs == {"black", "white"}
ColorPairs == {<<"white", "black">>, <<"black", "white">>}
Outputs == {"hi"}
Dims == {1, 2}
FontIndexes == {0, 1, 2}
ConsoleIds == {0, 1, 2}
WindowSize == <<2, 1>>
FixedStep == {600}
ClockSteps == {0, 600}

VARIABLES
    fonts, shaders, consoles, fps, frame_time_ms, active_console,
    width_pixels, height_pixels,
    viewport, events, should_close,
    clock, prev_seconds, prev_ms, frames,
    pc, idx, iters, ticks, err,
    log, dirtyAtRebuild, atTick, drained, call, fwd, returned, closedAtCall

host == <<fonts, shaders, consoles, fps, frame_time_ms, active_console,
          width_pixels, height_pixels>>
platform == <<viewport, events, should_close>>
timing == <<clock, prev_seconds, prev_ms, frames>>
vars == <<fonts, shaders, consoles, fps, frame_time_ms, active_console,
          width_pixels, height_pixels, viewport, events, should_close,
          clock, prev_seconds, prev_ms, frames, pc, idx, iters, ticks, err,
          log, dirtyAtRebuild, atTick, drained, call, fwd, returned, closedAtCall>>

\* ---------------------------------------------------------------- helpers
\* atTick before the tick of the frame: nothing registered is recorded yet.
NoneYet == [consoles |-> 0, fonts |-> 0]

SeqAt(s, i) == s[i + 1]

InRange(s, i) == i >= 0 /\ i < Len(s)

RECURSIVE Gcd(_, _)
Gcd(a, b) == IF b = 0 THEN a ELSE Gcd(b, a % b)

\* The f32 quotient of two small integers, kept as the fraction in lowest
\* terms (IEEE division is correctly rounded, so equal fractions are equal
\* floats).  0.0 is <<0, 1>>.
F32Div(n, d) == <<n \div Gcd(n, d), d \div Gcd(n, d)>>

F32Zero == <<0, 1>>

NoCall == [op |-> "none", n |-> -1, x |-> -1, y |-> -1,
           fg |-> "", bg |-> "", output |-> "", ret |-> <<>>]

Entry(op, con, font, shader) ==
    [op |-> op, con |-> con, font |-> font, shader |-> shader]

Step(op) == Entry(op, -1, -1, -1)

\* ------------------------------------------------- Console surfaces (trait)
\* A boxed Console supplied by the application: which box it is, and its
\* dirty flag.
Surface(sid, dirty) == [sid |-> sid, dirty |-> dirty]

\* A surface as the application hands it over: its geometry is not built yet.
NewSurface(sid) == Surface(sid, TRUE)

\* Console::at of a surface: the cell id that surface gives for (x, y).
SurfaceAt(s, x, y) == <<s.sid, x, y>>

\* cls, cls_bg, print, print_color of a surface change its cells.
SurfaceWrite(s) == [s EXCEPT !.dirty = TRUE]

\* Console::rebuild_if_dirty of a surface: whether it regenerates its
\* geometry, and the surface afterwards.
SurfaceRebuilds(s) == s.dirty

SurfaceRebuildIfDirty(s) == [s EXCEPT !.dirty = FALSE]

\* ---------------------------------------------------------------- init_raw
Init ==
    /\ fonts = <<>>
    /\ consoles = <<>>
    /\ shaders = <<[sh |-> 0]>>
    /\ fps = F32Zero
    /\ frame_time_ms = 0
    /\ active_console = 0
    /\ width_pixels = WindowSize[1]
    /\ height_pixels = WindowSize[2]
    /\ viewport = <<0, 0, WindowSize[1], WindowSize[2]>>
    /\ events = <<>>
    /\ should_close = FALSE
    /\ clock = 0
    /\ prev_seconds = 0
    /\ prev_ms = 0
    /\ frames = 0
    /\ pc = "setup"
    /\ idx = 0
    /\ iters = 0
    /\ ticks = 0
    /\ err = "none"
    /\ log = <<>>
    /\ dirtyAtRebuild = <<>>
    /\ atTick = NoneYet
    /\ drained = <<>>
    /\ call = NoCall
    /\ fwd = <<>>
    /\ returned = [font |-> <<>>, console |-> <<>>]
    /\ closedAtCall = FALSE

\* ------------------------------------------------------- application calls
\* The application holds the Rltk between init_raw and main_loop, and again
\* inside gamestate.tick(self).
InApp == pc \in {"setup", "intick"}

\* Faulty variant: the length after the push, one past the new element.
PushedIndexIsLen(v) == Len(v)

\* vec.len()-1 right after vec.push(..).
PushedIndex(v) == Len(v) - 1

loopState == <<clock, prev_seconds, prev_ms, frames, idx, iters, ticks,
               log, dirtyAtRebuild, atTick, drained, closedAtCall>>

\* Faulty variant: the texture is bound before it is uploaded.
BindThenUpload == <<"bind_texture", "setup_gl_texture">>

\* font.setup_gl_texture(); font.bind_texture(); the GPU calls made on the
\* font before it is pushed.
UploadAndBind == <<"setup_gl_texture", "bind_texture">>

register_font ==
    /\ InApp
    /\ Len(fonts) < MaxFonts
    /\ LET font == [fid |-> Len(returned.font), gl |-> UploadAndBind]
           pushed == Append(fonts, font)
       IN /\ fonts' = pushed
          /\ call' = [NoCall EXCEPT !.op = "register_font",
                                    !.ret = <<PushedIndex(pushed)>>]
          /\ returned' = [returned EXCEPT
                            !.font = Append(@, PushedIndex(pushed))]
    /\ fwd' = <<>>
    /\ UNCHANGED <<shaders, consoles, fps, frame_time_ms, active_console,
                   width_pixels, height_pixels, platform, loopState, pc, err>>

\* Faulty variant: the console is given the index after the last shader.
NextShaderIndex == Len(shaders)

\* DisplayConsole{ .., shader_index: 0 }
DefaultShaderIndex == 0

\* Faulty variant: the console just registered becomes the active one.
RegisterConsoleActivates ==
    /\ InApp
    /\ Len(consoles) < MaxConsoles
    /\ \E font_index \in FontIndexes :
         LET new_console == NewSurface(Len(returned.console))
             pushed == Append(consoles,
                              [console |-> new_console,
                               font_index |-> font_index,
                               shader_index |-> DefaultShaderIndex])
         IN /\ consoles' = pushed
            /\ active_console' = PushedIndex(pushed)
            /\ call' = [NoCall EXCEPT !.op = "register_console",
                                      !.n = font_index,
                                      !.ret = <<PushedIndex(pushed)>>]
            /\ returned' = [returned EXCEPT
                              !.console = Append(@, PushedIndex(pushed))]
    /\ fwd' = <<>>
    /\ UNCHANGED <<fonts, shaders, fps, frame_time_ms,
                   width_pixels, height_pixels, platform, loopState, pc, err>>

register_console ==
    /\ InApp
    /\ Len(consoles) < MaxConsoles
    /\ \E font_index \in FontIndexes :
         LET new_console == NewSurface(Len(returned.console))
             pushed == Append(consoles,
                              [console |-> new_console,
                               font_index |-> font_index,
                               shader_index |-> DefaultShaderIndex])
         IN /\ consoles' = pushed
            /\ call' = [NoCall EXCEPT !.op = "register_console",
                                      !.n = font_index,
                                      !.ret = <<PushedIndex(pushed)>>]
            /\ returned' = [returned EXCEPT
                              !.console = Append(@, PushedIndex(pushed))]
    /\ fwd' = <<>>
    /\ UNCHANGED <<fonts, shaders, fps, frame_time_ms, active_console,
                   width_pixels, height_pixels, platform, loopState, pc, err>>

set_active_console ==
    /\ InApp
    /\ \E id \in ConsoleIds :
         /\ active_console' = id
         /\ call' = [NoCall EXCEPT !.op = "set_active_console", !.n = id]
    /\ fwd' = <<>>
    /\ UNCHANGED <<fonts, shaders, consoles, fps, frame_time_ms,
                   width_pixels, height_pixels, platform, loopState, pc, err,
                   returned>>

\* The window is a public field: the application may ask for the close.
set_should_close ==
    /\ InApp
    /\ ~should_close
    /\ should_close' = TRUE
    /\ call' = [NoCall EXCEPT !.op = "set_should_close"]
    /\ fwd' = <<>>
    /\ UNCHANGED <<host, viewport, events, loopState, pc, err, returned>>

\* ------------------------------------------------ Console for Rltk
\* Faulty variant: the pass-through addresses the console registered last.
TargetLast == Len(consoles) - 1

\* self.consoles[self.active_console]
Target == active_console

\* self.consoles[Target].console.<op>(args): the indexing panics when the
\* index is out of range.
Forward(c, writes) ==
    /\ call' = IF InRange(consoles, Target) /\ c.op = "at"
                 THEN [c EXCEPT !.ret = SurfaceAt(SeqAt(consoles, Target).console,
                                                  c.x, c.y)]
                 ELSE c
    /\ IF InRange(consoles, Target)
         THEN /\ consoles' = [consoles EXCEPT ![Target + 1].console =
                                IF writes THEN SurfaceWrite(@) ELSE @]
              /\ fwd' = <<[con |-> Target, op |-> c.op, x |-> c.x, y |-> c.y,
                           fg |-> c.fg, bg |-> c.bg, output |-> c.output]>>
              /\ UNCHANGED <<pc, err>>
         ELSE /\ pc' = "panic"
              /\ err' = "console_index"
              /\ fwd' = <<>>
              /\ UNCHANGED consoles
    /\ UNCHANGED <<fonts, shaders, fps, frame_time_ms, active_console,
                   width_pixels, height_pixels, platform, loopState, returned>>

at ==
    /\ InApp
    /\ \E xy \in Cells :
         Forward([NoCall EXCEPT !.op = "at", !.x = xy[1], !.y = xy[2]], FALSE)

cls ==
    /\ InApp
    /\ Forward([NoCall EXCEPT !.op = "cls"], TRUE)

cls_bg ==
    /\ InApp
    /\ \E background \in RGBs :
         Forward([NoCall EXCEPT !.op = "cls_bg", !.bg = background], TRUE)

print ==
    /\ InApp
    /\ \E xy \in Cells, output \in Outputs :
         Forward([NoCall EXCEPT !.op = "print", !.x = xy[1], !.y = xy[2],
                                !.output = output], TRUE)

print_color ==
    /\ InApp
    /\ \E xy \in Cells, colors \in ColorPairs, output \in Outputs :
         Forward([NoCall EXCEPT !.op = "print_color", !.x = xy[1], !.y = xy[2],
                                !.fg = colors[1], !.bg = colors[2],
                                !.output = output], TRUE)

\* Faulty variant: the Host's rebuild_if_dirty is passed through like the
\* other Console methods.
RebuildIfDirtyForwards ==
    /\ InApp
    /\ InRange(consoles, Target)
    /\ consoles' = [consoles EXCEPT ![Target + 1].console =
                      SurfaceRebuildIfDirty(@)]
    /\ call' = [NoCall EXCEPT !.op = "rebuild_if_dirty"]
    /\ fwd' = <<[con |-> Target, op |-> "rebuild_if_dirty", x |-> -1,
                 y |-> -1, fg |-> "", bg |-> "", output |-> ""]>>
    /\ UNCHANGED <<fonts, shaders, fps, frame_time_ms, active_console,
                   width_pixels, height_pixels, platform, loopState, pc, err,
                   returned>>

\* The Host's own rebuild_if_dirty and gl_draw have empty bodies.
rebuild_if_dirty ==
    /\ InApp
    /\ call' = [NoCall EXCEPT !.op = "rebuild_if_dirty"]
    /\ fwd' = <<>>
    /\ UNCHANGED <<host, platform, loopState, pc, err, returned>>

gl_draw ==
    /\ InApp
    /\ call' = [NoCall EXCEPT !.op = "gl_draw"]
    /\ fwd' = <<>>
    /\ UNCHANGED <<host, platform, loopState, pc, err, returned>>

AppCall ==
    \/ register_font
    \/ register_console
    \/ set_active_console
    \/ set_should_close
    \/ at
    \/ cls
    \/ cls_bg
    \/ print
    \/ print_color
    \/ rebuild_if_dirty
    \/ gl_draw

\* ---------------------------------------------------------- process_events
KeyEvent == [kind |-> "Key", width |-> 0, height |-> 0]

FramebufferSize(w, h) == [kind |-> "FramebufferSize", width |-> w, height |-> h]

WindowEvents == {FramebufferSize(w, h) : w \in Dims, h \in Dims} \cup {KeyEvent}

\* Faulty variant: width and height change places.
HandleEventSwapped(vp, event) ==
    IF event.kind = "FramebufferSize"
      THEN <<0, 0, event.height, event.width>>
      ELSE vp

\* One arm of the match: gl::Viewport(0, 0, width, height), or nothing.
HandleEvent(vp, event) ==
    IF event.kind = "FramebufferSize"
      THEN <<0, 0, event.width, event.height>>
      ELSE vp

\* for (_, event) in glfw::flush_messages(&self.events) { match event .. }
RECURSIVE FlushMessages(_, _)
FlushMessages(vp, queue) ==
    IF queue = <<>> THEN vp
    ELSE FlushMessages(HandleEvent(vp, Head(queue)), Tail(queue))

\* Faulty variant: a resize is also stored in width_pixels, height_pixels.
ProcessEventsStoresSize ==
    /\ pc = "events"
    /\ viewport' = FlushMessages(viewport, events)
    /\ width_pixels' = viewport'[3]
    /\ height_pixels' = viewport'[4]
    /\ events' = <<>>
    /\ drained' = events
    /\ log' = Append(log, Step("events"))
    /\ pc' = "tick"
    /\ UNCHANGED <<fonts, shaders, consoles, fps, frame_time_ms, active_console,
                   should_close, timing, idx, iters, ticks, err,
                   dirtyAtRebuild, atTick, call, fwd, returned, closedAtCall>>

\* Faulty variant: only the oldest queued event is taken per frame.
ProcessOneEvent ==
    /\ pc = "events"
    /\ viewport' = IF events = <<>> THEN viewport
                   ELSE HandleEvent(viewport, Head(events))
    /\ events' = IF events = <<>> THEN <<>> ELSE Tail(events)
    /\ drained' = IF events = <<>> THEN <<>> ELSE <<Head(events)>>
    /\ log' = Append(log, Step("events"))
    /\ pc' = "tick"
    /\ UNCHANGED <<host, should_close, timing, idx, iters, ticks, err,
                   dirtyAtRebuild, atTick, call, fwd, returned, closedAtCall>>

process_events ==
    /\ pc = "events"
    /\ viewport' = FlushMessages(viewport, events)
    /\ events' = <<>>
    /\ drained' = events
    /\ log' = Append(log, Step("events"))
    /\ pc' = "tick"
    /\ UNCHANGED <<host, should_close, timing, idx, iters, ticks, err,
                   dirtyAtRebuild, atTick, call, fwd, returned, closedAtCall>>

\* --------------------------------------------------------------- main_loop
Secs(ms) == ms \div MsPerSec

\* let now = Instant::now(); prev_seconds, prev_ms, frames = 0.
\* Each now.elapsed() reads a clock that has moved on by some step.
Start(steps) ==
    /\ pc = "setup"
    /\ \E d1 \in steps, d2 \in steps :
         /\ prev_seconds' = Secs(clock + d1)
         /\ prev_ms' = clock + d1 + d2
         /\ clock' = clock + d1 + d2
    /\ frames' = 0
    /\ closedAtCall' = should_close
    /\ call' = NoCall
    /\ fwd' = <<>>
    /\ pc' = "head"
    /\ UNCHANGED <<host, platform, idx, iters, ticks, err, log,
                   dirtyAtRebuild, atTick, drained, returned>>

\* Faulty variant: a do-while, the first iteration runs unchecked.
LoopHeadDoWhile ==
    /\ pc = "head"
    /\ IF should_close /\ iters > 0
         THEN /\ pc' = "done"
              /\ UNCHANGED <<iters, log, dirtyAtRebuild, atTick, drained>>
         ELSE /\ pc' = "fps"
              /\ iters' = iters + 1
              /\ log' = <<>>
              /\ dirtyAtRebuild' = <<>>
              /\ atTick' = NoneYet
              /\ drained' = <<>>
    /\ UNCHANGED <<host, platform, timing, idx, ticks, err, call, fwd,
                   returned, closedAtCall>>

\* while !self.window.should_close()
LoopHead ==
    /\ pc = "head"
    /\ IF should_close
         THEN /\ pc' = "done"
              /\ UNCHANGED <<iters, log, dirtyAtRebuild, atTick, drained>>
         ELSE /\ pc' = "fps"
              /\ iters' = iters + 1
              /\ log' = <<>>
              /\ dirtyAtRebuild' = <<>>
              /\ atTick' = NoneYet
              /\ drained' = <<>>
    /\ UNCHANGED <<host, platform, timing, idx, ticks, err, call, fwd,
                   returned, closedAtCall>>

\* Faulty variant: divides by the seconds since the loop started.
FpsValueSinceStart(counted, now_seconds, prev) == F32Div(counted, now_seconds)

\* frames as f32 / (now_seconds - prev_seconds) as f32
FpsValue(counted, now_seconds, prev) == F32Div(counted, now_seconds - prev)

\* now_seconds, frames += 1, and the fps recomputation.
FpsUpdate(steps) ==
    /\ pc = "fps"
    /\ \E d \in steps :
         LET now_seconds == Secs(clock + d)
             counted == frames + 1
         IN /\ clock' = clock + d
            /\ IF now_seconds > prev_seconds
                 THEN /\ fps' = FpsValue(counted, now_seconds, prev_seconds)
                      /\ frames' = 0
                      /\ prev_seconds' = now_seconds
                 ELSE /\ frames' = counted
                      /\ UNCHANGED <<fps, prev_seconds>>
    /\ log' = Append(log, Step("fps"))
    /\ pc' = "frame_time"
    /\ UNCHANGED <<fonts, shaders, consoles, frame_time_ms, active_console,
                   width_pixels, height_pixels, platform, prev_ms, idx, iters,
                   ticks, err, dirtyAtRebuild, atTick, drained, call, fwd, returned,
                   closedAtCall>>

\* Faulty variant: the milliseconds since the loop started.
FrameTimeSinceStart(now_ms, prev) == now_ms

\* (now_ms - prev_ms) as f32: a whole number of milliseconds, exact in f32
\* for the durations below 2^24 ms that the clock of the model reaches.
FrameTimeValue(now_ms, prev) == now_ms - prev

\* now_ms and the frame_time_ms update.
FrameTimeUpdate(steps) ==
    /\ pc = "frame_time"
    /\ \E d \in steps :
         LET now_ms == clock + d
         IN /\ clock' = now_ms
            /\ IF now_ms > prev_ms
                 THEN /\ frame_time_ms' = FrameTimeValue(now_ms, prev_ms)
                      /\ prev_ms' = now_ms
                 ELSE UNCHANGED <<frame_time_ms, prev_ms>>
    /\ log' = Append(log, Step("frame_time"))
    /\ pc' = "events"
    /\ UNCHANGED <<fonts, shaders, consoles, fps, active_console,
                   width_pixels, height_pixels, platform, prev_seconds, frames,
                   idx, iters, ticks, err, dirtyAtRebuild, atTick, drained, call, fwd, returned,
                   closedAtCall>>

\* gamestate.tick(self) is entered ...
TickEnter ==
    /\ pc = "tick"
    /\ pc' = "intick"
    /\ ticks' = ticks + 1
    /\ log' = Append(log, Step("tick"))
    /\ atTick' = [consoles |-> Len(consoles), fonts |-> Len(fonts)]
    /\ UNCHANGED drained
    /\ UNCHANGED <<host, platform, timing, idx, iters, err, dirtyAtRebuild,
                   call, fwd, returned, closedAtCall>>

\* Faulty variant: a close requested during the tick breaks out of the loop.
TickReturnBreaks ==
    /\ pc = "intick"
    /\ pc' = IF should_close THEN "done" ELSE "rebuild"
    /\ idx' = 0
    /\ dirtyAtRebuild' = [i \in 1..Len(consoles) |-> consoles[i].console.dirty]
    /\ UNCHANGED <<atTick, drained>>
    /\ call' = NoCall
    /\ fwd' = <<>>
    /\ UNCHANGED <<host, platform, timing, iters, ticks, err, log, returned,
                   closedAtCall>>

\* ... and returns; the rebuild pass starts at the first console.
TickReturn ==
    /\ pc = "intick"
    /\ pc' = "rebuild"
    /\ idx' = 0
    /\ dirtyAtRebuild' = [i \in 1..Len(consoles) |-> consoles[i].console.dirty]
    /\ UNCHANGED <<atTick, drained>>
    /\ call' = NoCall
    /\ fwd' = <<>>
    /\ UNCHANGED <<host, platform, timing, iters, ticks, err, log, returned,
                   closedAtCall>>

\* Faulty variant: the pass rebuilds the active console only.
RebuildStepActiveOnly ==
    /\ pc = "rebuild"
    /\ idx < Len(consoles)
    /\ LET cons == SeqAt(consoles, idx)
       IN IF idx = active_console
            THEN /\ consoles' = [consoles EXCEPT ![idx + 1].console =
                                   SurfaceRebuildIfDirty(@)]
                 /\ log' = log \o <<Entry("rebuild_if_dirty", idx, -1, -1)>>
                               \o (IF SurfaceRebuilds(cons.console)
                                     THEN <<Entry("rebuild_geometry", idx, -1, -1)>>
                                     ELSE <<>>)
            ELSE UNCHANGED <<consoles, log>>
    /\ idx' = idx + 1
    /\ UNCHANGED <<fonts, shaders, fps, frame_time_ms, active_console,
                   width_pixels, height_pixels, platform, timing, pc, iters,
                   ticks, err, dirtyAtRebuild, atTick, drained, call, fwd, returned,
                   closedAtCall>>

\* for cons in self.consoles.iter_mut() { cons.console.rebuild_if_dirty(); }
\* The surface regenerates its geometry when it is dirty.
RebuildStep ==
    /\ pc = "rebuild"
    /\ idx < Len(consoles)
    /\ LET cons == SeqAt(consoles, idx)
       IN /\ consoles' = [consoles EXCEPT ![idx + 1].console =
                            SurfaceRebuildIfDirty(@)]
          /\ log' = log \o <<Entry("rebuild_if_dirty", idx, -1, -1)>>
                        \o (IF SurfaceRebuilds(cons.console)
                              THEN <<Entry("rebuild_geometry", idx, -1, -1)>>
                              ELSE <<>>)
    /\ idx' = idx + 1
    /\ UNCHANGED <<fonts, shaders, fps, frame_time_ms, active_console,
                   width_pixels, height_pixels, platform, timing, pc, iters,
                   ticks, err, dirtyAtRebuild, atTick, drained, call, fwd, returned,
                   closedAtCall>>

\* Faulty variant: the clear does not wait for the end of the rebuild pass.
ClearScreenEarly ==
    /\ pc = "rebuild"
    /\ log' = Append(log, Step("clear"))
    /\ pc' = "draw"
    /\ idx' = 0
    /\ UNCHANGED <<host, platform, timing, iters, ticks, err, dirtyAtRebuild, atTick, drained,
                   call, fwd, returned, closedAtCall>>

\* gl::ClearColor, gl::Clear once the rebuild pass is over.
ClearScreen ==
    /\ pc = "rebuild"
    /\ idx >= Len(consoles)
    /\ log' = Append(log, Step("clear"))
    /\ pc' = "draw"
    /\ idx' = 0
    /\ UNCHANGED <<host, platform, timing, iters, ticks, err, dirtyAtRebuild, atTick, drained,
                   call, fwd, returned, closedAtCall>>

\* Faulty variant: the first font, whatever the console's font_index.
ResolveFirstFont(cons) == SeqAt(fonts, 0)

\* &self.fonts[cons.font_index]
ResolveFont(cons) == SeqAt(fonts, cons.font_index)

\* &self.shaders[cons.shader_index]
ResolveShader(cons) == SeqAt(shaders, cons.shader_index)

\* Faulty variant: a console whose font does not resolve is skipped silently.
DrawStepSkipsUnresolved ==
    /\ pc = "draw"
    /\ idx < Len(consoles)
    /\ LET cons == SeqAt(consoles, idx)
       IN IF ~InRange(fonts, cons.font_index)
            THEN UNCHANGED log
            ELSE log' = Append(log,
                          Entry("gl_draw", idx, ResolveFont(cons).fid,
                                ResolveShader(cons).sh))
    /\ idx' = idx + 1
    /\ UNCHANGED <<host, platform, timing, pc, err, iters, ticks,
                   dirtyAtRebuild, atTick, drained, call, fwd, returned, closedAtCall>>

\* let font = &self.fonts[cons.font_index];
\* let shader = &self.shaders[cons.shader_index];
\* cons.console.gl_draw(font, shader);
\* An index out of range panics: the loop is left by unwinding.
DrawStep ==
    /\ pc = "draw"
    /\ idx < Len(consoles)
    /\ LET cons == SeqAt(consoles, idx)
       IN IF ~InRange(fonts, cons.font_index)
            THEN /\ pc' = "panic"
                 /\ err' = "font_index"
                 /\ UNCHANGED <<log, idx>>
          ELSE IF ~InRange(shaders, cons.shader_index)
            THEN /\ pc' = "panic"
                 /\ err' = "shader_index"
                 /\ UNCHANGED <<log, idx>>
          ELSE /\ log' = Append(log,
                           Entry("gl_draw", idx, ResolveFont(cons).fid,
                                 ResolveShader(cons).sh))
               /\ idx' = idx + 1
               /\ UNCHANGED <<pc, err>>
    /\ UNCHANGED <<host, platform, timing, iters, ticks, dirtyAtRebuild, atTick, drained,
                   call, fwd, returned, closedAtCall>>

\* Faulty variant: the draw pass covers only the consoles that were
\* registered when the tick was entered.
SwapBuffersEarly ==
    /\ pc = "draw"
    /\ idx >= atTick.consoles
    /\ log' = Append(log, Step("swap_buffers"))
    /\ pc' = "poll"
    /\ UNCHANGED <<host, platform, timing, idx, iters, ticks, err,
                   dirtyAtRebuild, atTick, drained, call, fwd, returned, closedAtCall>>

\* self.window.swap_buffers() once the draw pass is over.
SwapBuffers ==
    /\ pc = "draw"
    /\ idx >= Len(consoles)
    /\ log' = Append(log, Step("swap_buffers"))
    /\ pc' = "poll"
    /\ UNCHANGED <<host, platform, timing, idx, iters, ticks, err,
                   dirtyAtRebuild, atTick, drained, call, fwd, returned, closedAtCall>>

SeqsUpTo(S, n) == UNION {[1..k -> S] : k \in 0..n}

\* self.glfw.poll_events(): the platform queues what arrived and may set the
\* close request; the user closes the window by iteration maxIters.
PollEvents(kinds, maxIters) ==
    /\ pc = "poll"
    /\ \E arrived \in SeqsUpTo(kinds, MaxEvents - Len(events)),
          closeRequested \in BOOLEAN :
         /\ events' = events \o arrived
         /\ should_close' = (should_close \/ closeRequested \/ iters >= maxIters)
    /\ log' = Append(log, Step("poll_events"))
    /\ pc' = "head"
    /\ UNCHANGED <<host, viewport, timing, idx, iters, ticks, err,
                   dirtyAtRebuild, atTick, drained, call, fwd, returned, closedAtCall>>

Loop(steps, kinds, maxIters) ==
    \/ Start(steps)
    \/ LoopHead
    \/ FpsUpdate(steps)
    \/ FrameTimeUpdate(steps)
    \/ process_events
    \/ TickEnter
    \/ TickReturn
    \/ RebuildStep
    \/ ClearScreen
    \/ DrawStep
    \/ SwapBuffers
    \/ PollEvents(kinds, maxIters)

\* ------------------------------------------------------------ specifications
\* The application's calls and the loop, with a clock that moves one fixed
\* step per reading and no window events.
Next == AppCall \/ Loop(FixedStep, {}, MaxIters)

Spec == Init /\ [][Next]_vars

\* The state after register_font(font) and register_console(console, 0).
InitRegistered ==
    /\ fonts = <<[fid |-> 0, gl |-> UploadAndBind]>>
    /\ consoles = <<[console |-> NewSurface(0), font_index |-> 0,
                     shader_index |-> 0]>>
    /\ shaders = <<[sh |-> 0]>>
    /\ fps = F32Zero
    /\ frame_time_ms = 0
    /\ active_console = 0
    /\ width_pixels = WindowSize[1]
    /\ height_pixels = WindowSize[2]
    /\ viewport = <<0, 0, WindowSize[1], WindowSize[2]>>
    /\ events = <<>>
    /\ should_close = FALSE
    /\ clock = 0
    /\ prev_seconds = 0
    /\ prev_ms = 0
    /\ frames = 0
    /\ pc = "setup"
    /\ idx = 0
    /\ iters = 0
    /\ ticks = 0
    /\ err = "none"
    /\ log = <<>>
    /\ dirtyAtRebuild = <<>>
    /\ atTick = NoneYet
    /\ drained = <<>>
    /\ call = [NoCall EXCEPT !.op = "register_console", !.n = 0, !.ret = <<0>>]
    /\ fwd = <<>>
    /\ returned = [font |-> <<0>>, console |-> <<0>>]
    /\ closedAtCall = FALSE

\* The loop alone under a clock that may stand still between two readings.
NextTime == Loop(ClockSteps, {}, MaxTimeIters)

SpecTime == InitRegistered /\ [][NextTime]_vars

\* The loop alone with the platform queueing window events.
NextEvents == Loop(FixedStep, WindowEvents, MaxEventIters)

SpecEvents == InitRegistered /\ [][NextEvents]_vars

\* The loop with a tick that may ask for the close, every step of main_loop
\* being followed by the next one: the calls it makes return.
NextClose == set_should_close \/ Loop(ClockSteps, {KeyEvent}, MaxCloseIters)

SpecClose == InitRegistered /\ [][NextClose]_vars /\ WF_vars(NextClose)

\* ------------------------------------------------------------------ claims
Iota(n) == [k \in 1..n |-> k - 1]

IsPrefix(a, b) == Len(a) <= Len(b) /\ SubSeq(b, 1, Len(a)) = a

Binding(dc) == <<dc.console.sid, dc.font_index, dc.shader_index>>

Bindings(cs) == [k \in 1..Len(cs) |-> Binding(cs[k])]

Ops(l) == [k \in 1..Len(l) |-> l[k].op]

Positions(op, con) == {k \in 1..Len(log) : log[k].op = op /\ log[k].con = con}

Has(op, con) == Positions(op, con) # {}

PassThroughOps == {"at", "cls", "cls_bg", "print", "print_color"}

\* C1: the n-th register_font and the n-th register_console return n-1
\* (0, 1, 2, ... with no index returned twice), whether called before
\* main_loop or inside a tick, and no step shrinks or reorders a registry.
C1_Returned ==
    /\ returned.font = Iota(Len(returned.font))
    /\ returned.console = Iota(Len(returned.console))
    /\ Len(returned.font) = Len(fonts)
    /\ Len(returned.console) = Len(consoles)
    /\ call.op = "register_font" => call.ret = <<Len(fonts) - 1>>
    /\ call.op = "register_console" => call.ret = <<Len(consoles) - 1>>

C1_AppendOnly ==
    /\ IsPrefix(fonts, fonts')
    /\ IsPrefix(Bindings(consoles), Bindings(consoles'))
    /\ IsPrefix(returned.font, returned.font')
    /\ IsPrefix(returned.console, returned.console')

C1_RegistryIndices == []C1_Returned /\ [][C1_AppendOnly]_vars

C1_Witness ==
    /\ pc = "intick"
    /\ iters = 2
    /\ call.op = "register_console"
    /\ call.ret = <<1>>
    /\ returned.font = <<0, 1>>

\* C2: the steps of an iteration are, in this order, the timing update (fps,
\* then frame_time_ms), the event drain, the tick, the rebuild pass over every
\* console, the clear, the draw pass over every console, the present and the
\* poll; the steps done so far are always a prefix of that order and an
\* iteration that ends has done them all.
PassOver(op, n) == [k \in 1..n |-> <<op, k - 1>>]

FrameOrder(n) ==
    <<<<"fps", -1>>, <<"frame_time", -1>>, <<"events", -1>>, <<"tick", -1>>>>
    \o PassOver("rebuild_if_dirty", n)
    \o <<<<"clear", -1>>>>
    \o PassOver("gl_draw", n)
    \o <<<<"swap_buffers", -1>>, <<"poll_events", -1>>>>

IsHostStep(e) == e.op # "rebuild_geometry"

HostSteps(l) ==
    LET kept == SelectSeq(l, IsHostStep)
    IN [k \in 1..Len(kept) |-> <<kept[k].op, kept[k].con>>]

C2_FrameOrder ==
    /\ IsPrefix(HostSteps(log), FrameOrder(Len(consoles)))
    /\ (pc = "head" /\ iters > 0) => HostSteps(log) = FrameOrder(Len(consoles))
    /\ pc = "draw" => Has("clear", -1)
    /\ pc = "poll" => Has("swap_buffers", -1)

C2_Witness ==
    /\ pc = "head"
    /\ iters = 2
    /\ Len(consoles) = 2
    /\ HostSteps(log) = FrameOrder(2)

\* C3: in a frame a console's geometry is rebuilt if and only if the console
\* was dirty when the rebuild pass started, at most once, and before that
\* console's draw; a console that was clean is drawn with no rebuild.
C3_RebuildIffDirty ==
    /\ \A c \in 0..(Len(dirtyAtRebuild) - 1) :
         /\ Has("rebuild_geometry", c) => dirtyAtRebuild[c + 1]
         /\ Cardinality(Positions("rebuild_geometry", c)) <= 1
         /\ Has("clear", -1) =>
              (Has("rebuild_geometry", c) <=> dirtyAtRebuild[c + 1])
         /\ \A d \in Positions("gl_draw", c) :
              /\ \E r \in Positions("rebuild_if_dirty", c) : r < d
              /\ \A g \in Positions("rebuild_geometry", c) : g < d
              /\ Has("rebuild_geometry", c) <=> dirtyAtRebuild[c + 1]
    /\ \A k \in 1..Len(log) :
         log[k].op \in {"rebuild_geometry", "gl_draw"}
           => log[k].con < Len(dirtyAtRebuild)

C3_Witness ==
    /\ Len(dirtyAtRebuild) = 2
    /\ dirtyAtRebuild[1]
    /\ ~dirtyAtRebuild[2]
    /\ Has("rebuild_geometry", 0)
    /\ Has("gl_draw", 0)
    /\ Has("gl_draw", 1)

\* C4: the draws of a frame are the consoles 0, 1, 2, ... in registration
\* order, each once, each with fonts[font_index] and shaders[shader_index] of
\* the registries; a frame that is presented has drawn every console.
IsDraw(e) == e.op = "gl_draw"

Draws == SelectSeq(log, IsDraw)

C4_DrawOrder ==
    /\ Len(Draws) <= Len(consoles)
    /\ \A k \in 1..Len(Draws) :
         /\ Draws[k].con = k - 1
         /\ InRange(fonts, consoles[k].font_index)
         /\ InRange(shaders, consoles[k].shader_index)
         /\ Draws[k].font = SeqAt(fonts, consoles[k].font_index).fid
         /\ Draws[k].shader = SeqAt(shaders, consoles[k].shader_index).sh
    /\ Has("swap_buffers", -1) => Len(Draws) = Len(consoles)

C4_Witness ==
    /\ Has("swap_buffers", -1)
    /\ Len(consoles) = 2
    /\ consoles[1].font_index = 1
    /\ consoles[2].font_index = 0
    /\ Len(Draws) = 2

\* C5: with active_console a valid index, a pass-through call reaches
\* consoles[active_console] and no other console, with the arguments the
\* Host was given, and at returns that console's result; set_active_console
\* (id) makes id the active console.
C5_Forwarded ==
    /\ call.op = "set_active_console" => active_console = call.n
    /\ (call.op \in PassThroughOps /\ InRange(consoles, active_console)) =>
         /\ fwd = <<[con |-> active_console, op |-> call.op,
                     x |-> call.x, y |-> call.y, fg |-> call.fg,
                     bg |-> call.bg, output |-> call.output]>>
         /\ call.op = "at" =>
              call.ret = SurfaceAt(SeqAt(consoles, active_console).console,
                                   call.x, call.y)
         /\ call.op # "at" => call.ret = <<>>

C5_OthersUntouched ==
    (call'.op \in PassThroughOps /\ pc' # "panic") =>
       /\ Len(consoles') = Len(consoles)
       /\ \A k \in 1..Len(consoles) :
            k # active_console + 1 => consoles'[k] = consoles[k]

C5_PassThrough == []C5_Forwarded /\ [][C5_OthersUntouched]_vars

C5_Witness ==
    /\ pc = "intick"
    /\ call.op = "print_color"
    /\ active_console = 1
    /\ Len(consoles) = 2
    /\ fwd # <<>>
    /\ fwd[1].con = 1
    /\ consoles[2].console.dirty
    /\ ~consoles[1].console.dirty

\* C6: a pass-through call made while active_console is out of range ends
\* in a defined error: the program has not crashed and no console received
\* the call.
C6_OutOfRangeIsAnError ==
    (call.op \in PassThroughOps /\ ~InRange(consoles, active_console)) =>
       (pc # "panic" /\ fwd = <<>>)

\* C7: register_console stores any font_index and returns the new index; a
\* font_index that does not resolve raises its error at that console's draw
\* and nowhere else, the frame is then abandoned as a whole (nothing more is
\* drawn, nothing is presented), and a frame that is presented had every
\* console resolved and drawn.
C7_Unvalidated ==
    /\ call.op = "register_console" =>
         /\ pc \in {"setup", "intick"}
         /\ err = "none"
         /\ consoles[Len(consoles)].font_index = call.n
         /\ call.ret = <<Len(consoles) - 1>>
    /\ err = "font_index" =>
         /\ pc = "panic"
         /\ Has("clear", -1)
         /\ idx < Len(consoles)
         /\ ~InRange(fonts, SeqAt(consoles, idx).font_index)
         /\ \A c \in 0..(idx - 1) : Has("gl_draw", c)
         /\ \A c \in idx..(Len(consoles) - 1) : ~Has("gl_draw", c)
         /\ ~Has("swap_buffers", -1)
    /\ Has("swap_buffers", -1) =>
         \A k \in 1..Len(consoles) :
            InRange(fonts, consoles[k].font_index) /\ Has("gl_draw", k - 1)

C7_AtDrawOnly ==
    /\ (pc = "draw" /\ idx < Len(consoles)
          /\ ~InRange(fonts, SeqAt(consoles, idx).font_index)) =>
         (pc' = "panic" /\ err' = "font_index" /\ log' = log)
    /\ (err # "font_index" /\ err' = "font_index") => pc = "draw"
    /\ pc = "panic" => UNCHANGED vars

C7_FontIndexAtDraw == []C7_Unvalidated /\ [][C7_AtDrawOnly]_vars

C7_Witness ==
    /\ pc = "panic"
    /\ err = "font_index"
    /\ idx = 1
    /\ Len(consoles) = 2
    /\ Has("gl_draw", 0)

\* C8: the loop writes fps only in the fps step of an iteration whose whole
\* seconds exceed prev_seconds; fps is then (frames + 1) / (now_seconds -
\* prev_seconds), frames becomes 0 and prev_seconds now_seconds; in any other
\* step fps, frames and prev_seconds stay (the other iterations count the
\* frame).  fps is 0 while prev_seconds is still 0.
C8_Recompute ==
    LET now_seconds == Secs(clock')
        counted == frames + 1
    IN /\ pc = "fps" =>
            IF now_seconds > prev_seconds
              THEN /\ fps'[2] > 0
                   /\ fps'[1] * (now_seconds - prev_seconds) = counted * fps'[2]
                   /\ frames' = 0
                   /\ prev_seconds' = now_seconds
              ELSE /\ fps' = fps
                   /\ frames' = counted
                   /\ prev_seconds' = prev_seconds
       /\ pc # "fps" => fps' = fps
       /\ pc \notin {"fps", "setup"} =>
            (frames' = frames /\ prev_seconds' = prev_seconds)
       /\ fps' # fps => prev_seconds' > prev_seconds

C8_Stable ==
    /\ prev_seconds <= Secs(clock)
    /\ prev_seconds = 0 => fps = F32Zero
    /\ pc = "setup" => fps = F32Zero

C8_Fps == []C8_Stable /\ [][C8_Recompute]_vars

C8_Witness ==
    /\ pc = "frame_time"
    /\ frames = 0
    /\ fps = <<3, 2>>
    /\ prev_seconds = 3

\* C9: draining the queue leaves the viewport at (0, 0, width, height) of the
\* last framebuffer-resize event in it, unchanged when it holds none; every
\* resize event sets exactly its own width and height, any other event
\* nothing; no other step moves the viewport.
IsResize(e) == e.kind = "FramebufferSize"

Resizes(q) == {k \in 1..Len(q) : IsResize(q[k])}

LastResize(q) == CHOOSE k \in Resizes(q) : \A j \in Resizes(q) : j <= k

C9_EachEvent ==
    \A k \in 1..Len(events) :
       LET before == FlushMessages(viewport, SubSeq(events, 1, k - 1))
           after == FlushMessages(viewport, SubSeq(events, 1, k))
       IN IF IsResize(events[k])
            THEN after = <<0, 0, events[k].width, events[k].height>>
            ELSE after = before

C9_Drain ==
    /\ pc = "events" =>
         /\ events' = <<>>
         /\ viewport' = IF Resizes(events) = {}
                          THEN viewport
                          ELSE <<0, 0, events[LastResize(events)].width,
                                 events[LastResize(events)].height>>
    /\ pc # "events" => viewport' = viewport

C9_Viewport == []C9_EachEvent /\ [][C9_Drain]_vars

C9_Witness ==
    /\ pc = "tick"
    /\ iters = 3
    /\ viewport = <<0, 0, 1, 2>>
    /\ events = <<>>

\* C10: the head of every iteration reads the close request: set, main_loop
\* returns and nothing is ticked, rebuilt, drawn or presented afterwards; not
\* set, the iteration starts, and there is no other way into an iteration.
\* With the request set when main_loop is called the tick never runs.
C10_HeadChecks ==
    /\ (pc = "head" /\ should_close) => pc' = "done"
    /\ (pc = "head" /\ ~should_close) => pc' = "fps"
    /\ (pc' = "fps" /\ pc # "fps") => (pc = "head" /\ ~should_close)
    /\ ticks' # ticks => (pc = "tick" /\ ~closedAtCall)
    /\ pc = "done" => UNCHANGED vars

C10_ClosedAtCall ==
    /\ closedAtCall => (ticks = 0 /\ iters = 0 /\ log = <<>>
                          /\ pc \in {"head", "done"})
    /\ pc = "done" => should_close
    /\ ticks <= iters

C10_Closing == []C10_ClosedAtCall /\ [][C10_HeadChecks]_vars

C10_Witness ==
    /\ pc = "done"
    /\ closedAtCall
    /\ ticks = 0
    /\ Len(consoles) = 2

\* C11: every registered font has had exactly two GPU calls made on it,
\* setup_gl_texture and then bind_texture, both made by register_font before
\* the push; no later step (the loop, register_console, set_active_console,
\* the pass-through) makes another call on a font.
C11_UploadThenBindOnce ==
    /\ \A k \in 1..Len(fonts) :
         /\ Len(fonts[k].gl) = 2
         /\ fonts[k].gl[1] = "setup_gl_texture"
         /\ fonts[k].gl[2] = "bind_texture"
    /\ call.op = "register_font" => fonts[Len(fonts)].gl[1] = "setup_gl_texture"

C11_Witness ==
    /\ Len(fonts) = 2
    /\ iters = 2
    /\ Has("swap_buffers", -1)
    /\ Len(Draws) = 2
    /\ Draws[1].font # Draws[2].font

\* C12: every registered console has font_index < number of fonts and
\* shader_index < number of shaders, in every reachable state.
C12_IndicesResolve ==
    \A k \in 1..Len(consoles) :
       /\ InRange(fonts, consoles[k].font_index)
       /\ InRange(shaders, consoles[k].shader_index)

\* C13: the Host's own rebuild_if_dirty and gl_draw change nothing: the
\* registries, active_console, fps, frame_time_ms, the wrapped consoles, the
\* platform and the loop are as before, nothing is forwarded, and no rebuild
\* or draw is issued on a console.
HostNoOps == {"rebuild_if_dirty", "gl_draw"}

C13_NothingChanges ==
    call'.op \in HostNoOps =>
       /\ UNCHANGED <<host, platform, loopState, pc, err, returned>>
       /\ fwd' = <<>>
       /\ call'.ret = <<>>

C13_HostNoOps == [][C13_NothingChanges]_vars

C13_Witness ==
    /\ pc = "intick"
    /\ call.op = "rebuild_if_dirty"
    /\ Len(consoles) = 2
    /\ active_console = 1
    /\ consoles[2].console.dirty
    /\ ~consoles[1].console.dirty
    /\ fwd = <<>>

\* C14: process_events runs once per frame, after the timing updates and
\* before the tick; it takes every queued event in arrival order, so the
\* queue is empty from the tick until poll_events; what poll_events queues
\* stays queued, untouched, until the next frame's drain; an event other than
\* FramebufferSize changes neither the Host nor the viewport.
AfterDrain == {"tick", "intick", "rebuild", "draw", "poll"}

BeforeDrain == {"head", "fps", "frame_time"}

C14_OncePerFrame ==
    /\ Cardinality(Positions("events", -1)) <= 1
    /\ pc \in AfterDrain => (events = <<>> /\ Len(log) >= 3
                               /\ log[1].op = "fps"
                               /\ log[2].op = "frame_time"
                               /\ log[3].op = "events")
    /\ pc \in {"fps", "frame_time", "events"} =>
         (~Has("events", -1) /\ ~Has("tick", -1))
    /\ \A e \in WindowEvents : ~IsResize(e) => HandleEvent(viewport, e) = viewport

C14_DrainStep ==
    /\ pc = "events" =>
         /\ events' = <<>>
         /\ drained' = events
         /\ pc' = "tick"
         /\ viewport' = FlushMessages(viewport, SelectSeq(events, IsResize))
         /\ UNCHANGED host
    /\ pc \in BeforeDrain => events' = events
    /\ pc = "poll" => IsPrefix(events, events')
    /\ pc \in AfterDrain \ {"poll"} => events' = <<>>

C14_Drain == []C14_OncePerFrame /\ [][C14_DrainStep]_vars

C14_Witness ==
    /\ pc = "intick"
    /\ iters = 2
    /\ drained = <<FramebufferSize(2, 2), KeyEvent>>
    /\ viewport = <<0, 0, 2, 2>>
    /\ events = <<>>

\* C15: tick is entered exactly once in every iteration, and a console
\* registered inside the tick of a frame (with a font registered inside the
\* same tick, if it names one) has its rebuild_if_dirty and its gl_draw in
\* that same frame, each after those of every console registered earlier.
TickedStates == {"intick", "rebuild", "draw", "poll", "head", "done"}

UntickedStates == {"fps", "frame_time", "events", "tick"}

NewInTick == {k \in 0..(Len(consoles) - 1) : k >= atTick.consoles}

Pos(op, con) == CHOOSE k \in Positions(op, con) : TRUE

C15_TickOncePerIteration ==
    /\ pc \in TickedStates => ticks = iters
    /\ pc \in UntickedStates => ticks = iters - 1
    /\ pc \in TickedStates \ {"head", "done"} =>
         Cardinality(Positions("tick", -1)) = 1
    /\ pc \in UntickedStates => ~Has("tick", -1)

C15_SameFrame ==
    \A k \in NewInTick :
       /\ (Has("clear", -1) /\ pc # "head") =>
            /\ Cardinality(Positions("rebuild_if_dirty", k)) = 1
            /\ Pos("tick", -1) < Pos("rebuild_if_dirty", k)
            /\ \A j \in 0..(k - 1) :
                 Pos("rebuild_if_dirty", j) < Pos("rebuild_if_dirty", k)
       /\ (Has("swap_buffers", -1) /\ pc # "head") =>
            /\ Cardinality(Positions("gl_draw", k)) = 1
            /\ log[Pos("gl_draw", k)].font = consoles[k + 1].font_index
            /\ \A j \in 0..(k - 1) : Pos("gl_draw", j) < Pos("gl_draw", k)

C15_TickAndLateConsoles == C15_TickOncePerIteration /\ C15_SameFrame

C15_Witness ==
    /\ pc = "poll"
    /\ iters = 2
    /\ atTick = [consoles |-> 1, fonts |-> 1]
    /\ Len(consoles) = 2
    /\ Len(fonts) = 2
    /\ consoles[2].font_index = 1
    /\ Has("swap_buffers", -1)
    /\ Pos("gl_draw", 0) < Pos("gl_draw", 1)
    /\ log[Pos("gl_draw", 1)].font = 1

\* C16: the frame_time step writes frame_time_ms = now_ms - prev_ms and
\* prev_ms = now_ms exactly when now_ms > prev_ms and otherwise leaves both;
\* no other step of the loop writes frame_time_ms, and only the start of
\* main_loop also writes prev_ms; a written frame_time_ms is at least 1 and
\* prev_ms never decreases.
C16_Update ==
    LET now_ms == clock'
    IN /\ pc = "frame_time" =>
            IF now_ms > prev_ms
              THEN /\ frame_time_ms' = now_ms - prev_ms
                   /\ frame_time_ms' >= 1
                   /\ prev_ms' = now_ms
              ELSE /\ frame_time_ms' = frame_time_ms
                   /\ prev_ms' = prev_ms
       /\ pc # "frame_time" => frame_time_ms' = frame_time_ms
       /\ pc \notin {"frame_time", "setup"} => prev_ms' = prev_ms
       /\ prev_ms' >= prev_ms
       /\ frame_time_ms' # frame_time_ms =>
            (prev_ms' > prev_ms /\ frame_time_ms' = prev_ms' - prev_ms)

C16_Written ==
    /\ frame_time_ms = 0 \/ frame_time_ms >= 1
    /\ prev_ms <= clock
    /\ frame_time_ms <= prev_ms
    /\ pc = "setup" => frame_time_ms = 0

C16_FrameTime == []C16_Written /\ [][C16_Update]_vars

C16_Witness ==
    /\ pc = "events"
    /\ iters = 2
    /\ frame_time_ms = 1200
    /\ prev_ms = 1200
    /\ clock = 1200

\* C17: once the close request is set inside an iteration, that iteration
\* still runs its remaining steps through swap_buffers and poll_events, no
\* further iteration starts and main_loop returns; main_loop returns only
\* from the loop head with the request set, after a completed iteration.
C17_NoNewIteration ==
    /\ should_close => (should_close' /\ iters' = iters)
    /\ (pc' = "done" /\ pc # "done") => (pc = "head" /\ should_close)
    /\ (should_close /\ pc \in AfterDrain \cup {"events"}) =>
         pc' \in AfterDrain \cup {"head"}

C17_CompletedIteration ==
    /\ pc = "done" => should_close
    /\ (pc = "done" /\ iters > 0) =>
         /\ ticks = iters
         /\ Has("swap_buffers", -1)
         /\ log[Len(log)].op = "poll_events"
         /\ \A k \in 0..(Len(consoles) - 1) :
              Has("rebuild_if_dirty", k) /\ Has("gl_draw", k)

C17_Terminates == should_close ~> (pc = "done")

C17_CloseEndsLoop ==
    /\ []C17_CompletedIteration
    /\ [][C17_NoNewIteration]_vars
    /\ C17_Terminates

C17_Witness ==
    /\ pc = "poll"
    /\ iters = 2
    /\ should_close
    /\ ~closedAtCall
    /\ Has("swap_buffers", -1)
    /\ Has("gl_draw", 0)

\* C18: a register_console call appends one DisplayConsole, with the
\* surface it was given, the font_index it was given and shader_index 0, and
\* leaves the consoles before it as they were; the shader registry is the one
\* shader of init_raw in every state, so every console's shader_index
\* resolves.
C18_OneShader ==
    /\ Len(shaders) = 1
    /\ shaders = <<[sh |-> 0]>>
    /\ \A k \in 1..Len(consoles) :
         /\ consoles[k].shader_index = 0
         /\ InRange(shaders, consoles[k].shader_index)
    /\ \A k \in 1..Len(log) : log[k].op = "gl_draw" => log[k].shader = 0
    /\ err # "shader_index"
    /\ call.op = "register_console" =>
         /\ Len(consoles) >= 1
         /\ consoles[Len(consoles)].font_index = call.n
         /\ consoles[Len(consoles)].shader_index = 0

C18_AppendsOne ==
    /\ (call'.op = "register_console" /\ call' # call) =>
         /\ Len(consoles') = Len(consoles) + 1
         /\ SubSeq(consoles', 1, Len(consoles)) = consoles
         /\ consoles'[Len(consoles')].console =
              NewSurface(Len(returned.console))
         /\ consoles'[Len(consoles')].font_index = call'.n
         /\ UNCHANGED <<fonts, shaders, active_console>>
    /\ shaders' = shaders

C18_RegisterConsole == []C18_OneShader /\ [][C18_AppendsOne]_vars

C18_Witness ==
    /\ pc = "poll"
    /\ Len(consoles) = 2
    /\ Len(fonts) = 2
    /\ consoles[1].font_index = 1
    /\ consoles[2].font_index = 1
    /\ Len(Draws) = 2
    /\ Draws[2].shader = 0

\* C19: width_pixels and height_pixels keep the values init_raw was given
\* in every step; a FramebufferSize event moves only the viewport, which may
\* from then on differ from the stored width_pixels, height_pixels.
C19_Stored ==
    /\ width_pixels = WindowSize[1]
    /\ height_pixels = WindowSize[2]
    /\ (pc = "setup" \/ (iters <= 1 /\ pc \in BeforeDrain \cup {"events"})) =>
         viewport = <<0, 0, width_pixels, height_pixels>>

C19_NeverWritten ==
    /\ width_pixels' = width_pixels
    /\ height_pixels' = height_pixels
    /\ viewport' # viewport =>
         /\ pc = "events"
         /\ Resizes(events) # {}
         /\ UNCHANGED host

C19_PixelDimensions == []C19_Stored /\ [][C19_NeverWritten]_vars

C19_Witness ==
    /\ pc = "poll"
    /\ iters = 3
    /\ drained = <<>>
    /\ viewport = <<0, 0, 1, 2>>
    /\ width_pixels = 2
    /\ height_pixels = 1

\* C20: active_console is 0 after init_raw; a step changes it only if it is
\* a set_active_console call, which sets it to its argument and changes
\* nothing else of the Host, the platform or the loop; so while it is 0 a
\* pass-through call reaches the first registered console, however many
\* consoles are registered.
C20_OnlySetActive ==
    /\ active_console' # active_console =>
         /\ call'.op = "set_active_console"
         /\ active_console' = call'.n
    /\ (call'.op = "set_active_console" /\ call' # call) =>
         /\ active_console' = call'.n
         /\ fwd' = <<>>
         /\ UNCHANGED <<fonts, shaders, consoles, fps, frame_time_ms,
                        width_pixels, height_pixels, platform, loopState, pc,
                        err, returned>>
    /\ call'.op \in {"register_font", "register_console"} \cup PassThroughOps =>
         active_console' = active_console
    /\ pc \notin {"setup", "intick"} => active_console' = active_console

C20_FirstConsole ==
    (active_console = 0 /\ call.op \in PassThroughOps /\ Len(consoles) >= 1) =>
       /\ Len(fwd) = 1
       /\ fwd[1].con = 0

C20_ActiveConsole ==
    /\ active_console = 0
    /\ []C20_FirstConsole
    /\ [][C20_OnlySetActive]_vars

C20_Witness ==
    /\ pc = "intick"
    /\ iters = 2
    /\ active_console = 0
    /\ Len(consoles) = 2
    /\ call.op = "cls_bg"
    /\ fwd # <<>>
    /\ fwd[1].con = 0
    /\ fwd[1].op = "cls_bg"

====
